---- MODULE Spec2Model ----
(***************************************************************************)
(* Device synchronisation of webextensions/common/sync.js: the device      *)
(* registry (updateSelf / updateDevices), the store-backed message channel *)
(* (sendMessage / receiveMessage), getOtherDevices and isSendableTab.      *)
(*                                                                         *)
(* Time is counted in hours: one unit is the 1000 * 60 * 60 milliseconds   *)
(* of sync.js line 125.  The 250 ms cool-down timers are shorter than one  *)
(* unit: their timeout actions fire between ticks, per device in the order *)
(* the timers were set.                                                    *)
(* Strings that are only compared (device names) are natural numbers in    *)
(* the strings' lexicographic order, 0 standing for null.                  *)
(***************************************************************************)
EXTENDS Integers, Sequences, FiniteSets, TLC

VARIABLES
  now,                      \* Date.now(), in hours
  syncDeviceInfo,           \* configs.syncDeviceInfo of each device
  generated,                \* number of identities generated so far, per device
  syncDevices,              \* configs.syncDevices: the shared device table
  syncDevicesLocalCache,    \* configs.syncDevicesLocalCache of each device
  syncDeviceExpirationDays, \* configs.syncDeviceExpirationDays of each device
  updateSelfUpdating,       \* updateSelf.updating of each device
  updateDevicesUpdating,    \* updateDevices.updating of each device
  timers,                   \* the pending 250 ms timers of lines 88 and 139, per
                            \* device, in the order they were set
  notified,                 \* a change of syncDevices awaits the observer, per device
  chunkedSyncData,          \* the stored value of the chunked key chunkedSyncData
  syncLastMessageTimestamp, \* configs.syncLastMessageTimestamp of each device
  reserved,                 \* the drain timers of line 147 that are pending (the last
                            \* is reserveToReceiveMessage.reserved), per device
  receiveWrite,             \* receiveMessage suspended at its await: the value to store
  sendWrite,                \* sendMessage suspended at its await: the value to store
  delivered,                \* messages dispatched to onMessage, per device, in order
  sent,                     \* number of sendMessage calls so far
  syncUnsendableUrlPattern, \* configs.syncUnsendableUrlPattern of each device
  unsendableUrlMatcher,     \* isSendableTab.unsendableUrlMatcher of each device
  last                      \* the call that has just returned: its inputs and results

vars == << now, syncDeviceInfo, generated, syncDevices, syncDevicesLocalCache,
           syncDeviceExpirationDays, updateSelfUpdating, updateDevicesUpdating,
           timers, notified, chunkedSyncData, syncLastMessageTimestamp, reserved,
           receiveWrite, sendWrite, delivered, sent, syncUnsendableUrlPattern,
           unsendableUrlMatcher, last >>

registryVars == << syncDeviceInfo, generated, syncDevices, syncDevicesLocalCache,
                   syncDeviceExpirationDays, updateSelfUpdating,
                   updateDevicesUpdating, timers >>

channelVars == << chunkedSyncData, syncLastMessageTimestamp, reserved,
                  receiveWrite, sendWrite, delivered, sent >>

filterVars == << syncUnsendableUrlPattern, unsendableUrlMatcher >>

----------------------------------------------------------------------------
(* Bounds of the model *)

MaxNow == 37        \* the registry's clock stops here
MaxMsgNow == 2      \* the message channel's clock stops here
MaxSends == 2       \* sendMessage calls in one behaviour
MaxDays == 1        \* largest expiry threshold configured
MaxGenerated == 2   \* identities one device may generate
MaxPattern == 2     \* exclusion patterns that may be configured: 0 .. MaxPattern
MaxUrlKind == 2     \* kinds of locator: 1 .. MaxUrlKind
MaxName == 2        \* device names: null (0) and 1 .. MaxName

----------------------------------------------------------------------------
(* Program constants *)

HoursPerDay == 24
MaxUrlLength == 65535

Devices == {"A", "B", "C"}

\* the devices that are running; the third is offline: others send to it and hold
\* its record
Online == {"A", "B"}

\* the platform's default device name, `${browserInfo.name} on ${platformInfo.os}`
DefaultName(d) == CASE d = "A" -> 2 [] d = "B" -> 1 [] OTHER -> 2

\* a fresh token `device-${Date.now()}-${random}`: the k-th identity made on d
DeviceId(d, k) == << d, k >>

NoInfo == [id |-> << >>, name |-> 0, icon |-> 0, timestamp |-> 0]

\* configs.syncDevices when the store holds null for it: no table of records, kept
\* as a value that differs from every table
NoTable == << [id |-> << >>, info |-> NoInfo] >>

\* `last` when the most recent step was no call (a timer, the clock, a write landing)
NoCall == [kind |-> "none"]

----------------------------------------------------------------------------
(* Date.now(): the clock advances by step hours, up to max *)

Tick(step, max) ==
  /\ now + step <= max
  /\ now' = now + step
  /\ last' = NoCall
  /\ UNCHANGED << registryVars, notified, channelVars, filterVars >>

----------------------------------------------------------------------------
(* The message channel *)

SelfId(d) == syncDeviceInfo[d].id

\* the ids messages are addressed to: the identities of the devices
Recipients == { DeviceId(e, 1) : e \in Devices }

\* JSON.stringify(messages): what setChunkedConfig stores
Stringify(messages) == [kind |-> "array", items |-> messages]

\* JSON.parse(getChunkedConfig('chunkedSyncData') || '[]'): a missing value reads as the
\* empty list, a malformed one throws, a value that is no list parses to a non-array
ParseQueue(stored) ==
  CASE stored.kind = "missing"   -> [threw |-> FALSE, isArray |-> TRUE,  items |-> << >>]
    [] stored.kind = "array"     -> [threw |-> FALSE, isArray |-> TRUE,  items |-> stored.items]
    [] stored.kind = "object"    -> [threw |-> FALSE, isArray |-> FALSE, items |-> << >>]
    [] OTHER                     -> [threw |-> TRUE,  isArray |-> FALSE, items |-> << >>]

\* line 162 written with < : a message at the watermark passes
AlreadySeenLoose(timestamp, watermark) == timestamp < watermark

\* line 162: the message is at or below the watermark
AlreadySeen(timestamp, watermark) == timestamp <= watermark

\* no try around the body: an error thrown in it leaves the function
RejectsUncaught(threw) == threw

\* lines 154 and 176-178, 182 and 193-195: the body of receiveMessage and of
\* sendMessage is a try whose catch logs the error: the promise returned never rejects
Rejects(threw) == FALSE

\* line 173 without its test: the rest-list is always stored
RestDiffersAlways(rest, messages) == TRUE

\* line 173: restMessages.length != messages.length
RestDiffers(rest, messages) == Len(rest) # Len(messages)

\* the callback of messages.filter, run over messages[i..] in order: acc carries the
\* kept entries, the watermark (written at every dispatch) and the dispatched messages
RECURSIVE FilterMessages(_, _, _, _)
FilterMessages(messages, i, self, acc) ==
  IF i > Len(messages) THEN acc
  ELSE LET message == messages[i] IN
    IF AlreadySeen(message.timestamp, acc.watermark)
      THEN FilterMessages(messages, i + 1, self, acc)
    ELSE IF message.to = self
      THEN FilterMessages(messages, i + 1, self,
             [acc EXCEPT !.watermark = message.timestamp,
                         !.dispatched = Append(@, message)])
    ELSE FilterMessages(messages, i + 1, self,
             [acc EXCEPT !.rest = Append(@, message)])

\* lines 145-146 left out: the pending timer is not cleared
ClearTimeoutNever(pending) == pending

\* lines 145-146: clearTimeout of the timer the property holds, when it holds one
ClearTimeout(pending) == IF pending > 0 THEN pending - 1 ELSE pending

\* lines 145-150: the drain timers pending after a call
Rescheduled(pending) == ClearTimeout(pending) + 1

\* reserveToReceiveMessage: cancel the pending drain timer, start a new one
ReserveToReceiveMessage(d) ==
  /\ syncDeviceInfo[d] # NoInfo
  /\ reserved' = [reserved EXCEPT ![d] = Rescheduled(@)]
  /\ last' = [kind |-> "reserveToReceiveMessage", dev |-> d,
              cleared |-> reserved[d] > 0]
  /\ UNCHANGED << now, registryVars, notified, filterVars, chunkedSyncData,
                  syncLastMessageTimestamp, receiveWrite, sendWrite, delivered, sent >>

\* the drain timer fires: receiveMessage up to its await
ReceiveMessage(d) ==
  /\ reserved[d] > 0
  /\ receiveWrite[d] = << >>
  /\ reserved' = [reserved EXCEPT ![d] = @ - 1]
  /\ LET parsed == ParseQueue(chunkedSyncData)
         start  == [rest |-> << >>, watermark |-> syncLastMessageTimestamp[d],
                    dispatched |-> << >>]
         out    == IF parsed.threw \/ ~parsed.isArray THEN start
                   ELSE FilterMessages(parsed.items, 1, SelfId(d), start)
         writes == /\ ~parsed.threw
                   /\ parsed.isArray
                   /\ RestDiffers(out.rest, parsed.items)
     IN /\ syncLastMessageTimestamp' =
             [syncLastMessageTimestamp EXCEPT ![d] = out.watermark]
        /\ delivered' = [delivered EXCEPT ![d] = @ \o out.dispatched]
        /\ receiveWrite' =
             [receiveWrite EXCEPT ![d] = IF writes THEN << Stringify(out.rest) >> ELSE << >>]
        /\ last' = [kind |-> "receiveMessage", dev |-> d, self |-> SelfId(d),
                    watermark |-> syncLastMessageTimestamp[d],
                    messages |-> parsed.items, rest |-> out.rest,
                    dispatched |-> out.dispatched, writes |-> writes,
                    rejected |-> Rejects(parsed.threw \/ ~parsed.isArray)]
  /\ UNCHANGED << now, registryVars, notified, filterVars, chunkedSyncData, sendWrite, sent >>

\* the write awaited at line 174 lands in the store
ReceiveMessageStored(d) ==
  /\ receiveWrite[d] # << >>
  /\ chunkedSyncData' = receiveWrite[d][1]
  /\ receiveWrite' = [receiveWrite EXCEPT ![d] = << >>]
  /\ last' = NoCall
  /\ UNCHANGED << now, registryVars, notified, filterVars, syncLastMessageTimestamp, reserved,
                  sendWrite, delivered, sent >>

\* sendMessage(to, data) up to its await; the payload of the k-th send is k
SendMessage(d, to) ==
  /\ syncDeviceInfo[d] # NoInfo
  /\ sendWrite[d] = << >>
  /\ sent < MaxSends
  /\ sent' = sent + 1
  /\ LET parsed  == ParseQueue(chunkedSyncData)
         message == [timestamp |-> now, from |-> SelfId(d), to |-> to, data |-> sent + 1]
         threw   == parsed.threw \/ ~parsed.isArray
     IN /\ sendWrite' =
             [sendWrite EXCEPT ![d] =
                IF threw THEN << >> ELSE << Stringify(Append(parsed.items, message)) >>]
        /\ last' = [kind |-> "sendMessage", dev |-> d, message |-> message,
                    messages |-> parsed.items, threw |-> threw,
                    rejected |-> Rejects(threw)]
  /\ UNCHANGED << now, registryVars, notified, filterVars, chunkedSyncData,
                  syncLastMessageTimestamp, reserved, receiveWrite, delivered >>

\* the write awaited at line 191 lands in the store
SendMessageStored(d) ==
  /\ sendWrite[d] # << >>
  /\ chunkedSyncData' = sendWrite[d][1]
  /\ sendWrite' = [sendWrite EXCEPT ![d] = << >>]
  /\ last' = NoCall
  /\ UNCHANGED << now, registryVars, notified, filterVars, syncLastMessageTimestamp, reserved,
                  receiveWrite, delivered, sent >>

\* the write awaited at line 191 fails: the store keeps its value and the error is
\* thrown into the catch of lines 193-195
SendMessageFailed(d) ==
  /\ sendWrite[d] # << >>
  /\ sendWrite' = [sendWrite EXCEPT ![d] = << >>]
  /\ last' = [kind |-> "sendMessageFailed", dev |-> d, rejected |-> Rejects(TRUE)]
  /\ UNCHANGED << now, registryVars, notified, filterVars, chunkedSyncData,
                  syncLastMessageTimestamp, reserved, receiveWrite, delivered, sent >>

\* the stored value of the queue when the devices start: never written, or a value
\* that is no list, or one that does not parse
StoredAtStart == { [kind |-> k, items |-> << >>] : k \in {"missing", "object", "malformed"} }

\* every device has run init
InitChannel ==
  /\ now = 1
  /\ syncDeviceInfo = [d \in Devices |->
        [id |-> DeviceId(d, 1), name |-> DefaultName(d), icon |-> 0, timestamp |-> 1]]
  /\ generated = [d \in Devices |-> 1]
  /\ syncDevices = << >>
  /\ syncDevicesLocalCache = [d \in Devices |-> << >>]
  /\ syncDeviceExpirationDays = [d \in Devices |-> 0]
  /\ updateSelfUpdating = [d \in Devices |-> FALSE]
  /\ updateDevicesUpdating = [d \in Devices |-> FALSE]
  /\ timers = [d \in Devices |-> << >>]
  /\ notified = [d \in Devices |-> FALSE]
  /\ chunkedSyncData \in StoredAtStart
  /\ syncLastMessageTimestamp = [d \in Devices |-> 0]
  /\ reserved = [d \in Devices |-> 0]
  /\ receiveWrite = [d \in Devices |-> << >>]
  /\ sendWrite = [d \in Devices |-> << >>]
  /\ delivered = [d \in Devices |-> << >>]
  /\ sent = 0
  /\ syncUnsendableUrlPattern = [d \in Devices |-> 0]
  /\ unsendableUrlMatcher = [d \in Devices |-> << >>]
  /\ last = NoCall

\* the channel's clock advances hour by hour
TickChannel == Tick(1, MaxMsgNow)
Reserve == \E d \in Online : ReserveToReceiveMessage(d)
Receive == \E d \in Online : ReceiveMessage(d)
ReceiveStored == \E d \in Online : ReceiveMessageStored(d)
Send == \E d \in Online : \E to \in Recipients \ {SelfId(d)} : SendMessage(d, to)
SendStored == \E d \in Online : SendMessageStored(d)
SendFailed == \E d \in Online : SendMessageFailed(d)

NextChannel ==
  \/ TickChannel
  \/ Reserve
  \/ Receive
  \/ ReceiveStored
  \/ Send
  \/ SendStored
  \/ SendFailed

SpecChannel == InitChannel /\ [][NextChannel]_vars


\* the channel of one device, which also sends to itself.  A timer that is pending
\* expires and a write that is awaited lands: the drain that a pending timer starts
\* and the store's write are taken when they stay possible
Drainer == "A"

NextDrain ==
  \/ TickChannel
  \/ ReserveToReceiveMessage(Drainer)
  \/ ReceiveMessage(Drainer)
  \/ ReceiveMessageStored(Drainer)
  \/ \E to \in Recipients : SendMessage(Drainer, to)
  \/ SendMessageStored(Drainer)
  \/ SendMessageFailed(Drainer)

SpecDrain ==
  /\ InitChannel
  /\ [][NextDrain]_vars
  /\ WF_vars(ReceiveMessage(Drainer))
  /\ WF_vars(ReceiveMessageStored(Drainer))

----------------------------------------------------------------------------
(* Claims about the message channel, checked under SpecChannel and SpecDrain *)

NotTo(messages, id) == SelectSeq(messages, LAMBDA message : message.to # id)

Occurrences(messages, message) ==
  Cardinality({ i \in DOMAIN messages : messages[i] = message })

\* C1: the rest-list a drain by device X persists holds every entry of the queue it
\* read whose `to` is not X, unchanged and in the original order.
C1_OthersMessagesKept ==
  (last.kind = "receiveMessage" /\ last.writes)
    => NotTo(last.rest, last.self) = NotTo(last.messages, last.self)

\* C2: every message addressed to D that a drain by D reads has been dispatched to
\* D's subscribers exactly once when that drain returns.
C2_DeliveredExactlyOnce ==
  last.kind = "receiveMessage"
    => \A i \in DOMAIN last.messages :
         last.messages[i].to = last.self
           => Occurrences(delivered[last.dev], last.messages[i]) = 1

\* C3: no message is dispatched twice at a device: the timestamps dispatched at a
\* device strictly increase, a drain dispatches only above the watermark it started
\* from, and the watermark is the timestamp of the last dispatch (0 before the first).
C3_NoDuplicateDispatch ==
  /\ \A d \in Devices :
       /\ \A i, j \in DOMAIN delivered[d] :
            i < j => delivered[d][i].timestamp < delivered[d][j].timestamp
       /\ syncLastMessageTimestamp[d] =
            IF delivered[d] = << >> THEN 0
            ELSE delivered[d][Len(delivered[d])].timestamp
  /\ last.kind = "receiveMessage"
       => \A i \in DOMAIN last.dispatched :
            last.dispatched[i].timestamp > last.watermark

\* a drain re-reads a message it has already dispatched (a stale write of a sender
\* put it back) and dispatches nothing for it
C3_Witness ==
  /\ last.kind = "receiveMessage"
  /\ last.dispatched = << >>
  /\ \E i \in DOMAIN last.messages :
       /\ last.messages[i].to = last.self
       /\ Occurrences(delivered[last.dev], last.messages[i]) = 1

\* message is an entry of the list
In(messages, message) == \E i \in DOMAIN messages : messages[i] = message

\* C16: a message of the stored queue leaves it only once its recipient has
\* dispatched it: no write of a send or of a drain, whatever was read and stored in
\* between, removes a message that the device it is addressed to has not dispatched.
C16_StaysUntilDispatched ==
  [][\A i \in DOMAIN chunkedSyncData.items :
       LET message == chunkedSyncData.items[i] IN
         In(chunkedSyncData'.items, message)
           \/ \E d \in Devices : SelfId(d) = message.to /\ In(delivered'[d], message)]_vars

\* C19: a drain that reads a stored value that does not parse or is no list
\* dispatches nothing, leaves the stored queue, the watermark and the dispatched
\* messages as they were, starts no write and does not reject.  A drain that reads a
\* missing value, or whose rest-list is as long as the list it read, starts no write.
C19_BadQueueDrainIsSilent ==
  [][\A d \in Devices :
       (last'.kind = "receiveMessage" /\ last'.dev = d) =>
         /\ chunkedSyncData' = chunkedSyncData
         /\ ~last'.rejected
         /\ chunkedSyncData.kind \notin {"missing", "array"}
              => /\ last'.dispatched = << >>
                 /\ ~last'.writes
                 /\ receiveWrite'[d] = << >>
                 /\ syncLastMessageTimestamp' = syncLastMessageTimestamp
                 /\ delivered' = delivered
         /\ (chunkedSyncData.kind = "missing" \/ last'.rest = last'.messages)
              => (~last'.writes /\ receiveWrite'[d] = << >>)]_vars

\* a drain has read a value that is no list or does not parse, after a send has
\* been attempted on it
C19_Witness ==
  /\ last.kind = "receiveMessage"
  /\ chunkedSyncData.kind \in {"object", "malformed"}
  /\ sent > 0

\* C20: sendMessage computes the queue it has just read followed by one message that
\* carries the clock, the own id, the recipient and the payload, and stores nothing
\* else; the write that lands stores that list.  When the stored value cannot be
\* extended, or the write fails, the call does not reject and leaves the stored
\* queue, the timers and every pending write as they were, so a later send finds
\* what it would have found without the failed one.
C20_SendAppendsOrLeavesAlone ==
  [][\A d \in Devices :
       /\ (last'.kind = "sendMessage" /\ last'.dev = d) =>
            /\ last'.message.timestamp = now
            /\ last'.message.from = syncDeviceInfo[d].id
            /\ last'.message.to \in Recipients
            /\ ~last'.rejected
            /\ chunkedSyncData' = chunkedSyncData
            /\ UNCHANGED << reserved, receiveWrite, delivered, syncLastMessageTimestamp >>
            /\ sendWrite[d] = << >>
            /\ \A e \in Devices \ {d} : sendWrite'[e] = sendWrite[e]
            /\ IF chunkedSyncData.kind \in {"missing", "array"}
                 THEN sendWrite'[d] =
                        << [kind  |-> "array",
                            items |-> chunkedSyncData.items \o << last'.message >>] >>
                 ELSE sendWrite'[d] = << >>
       /\ (last'.kind = "sendMessageFailed" /\ last'.dev = d) =>
            /\ ~last'.rejected
            /\ chunkedSyncData' = chunkedSyncData
            /\ UNCHANGED << reserved, receiveWrite, delivered, syncLastMessageTimestamp >>
            /\ sendWrite' = [sendWrite EXCEPT ![d] = << >>]
       /\ (last'.kind = "none" /\ sendWrite[d] # << >> /\ sendWrite'[d] = << >>)
            => chunkedSyncData' = sendWrite[d][1]]_vars

\* a write of a send failed while the stored queue held a message, and the queue
\* still holds it
C20_Witness ==
  /\ last.kind = "sendMessageFailed"
  /\ chunkedSyncData.kind = "array"
  /\ chunkedSyncData.items # << >>
  /\ sendWrite[last.dev] = << >>

\* C18: a device has at most one drain timer pending.  A call of
\* reserveToReceiveMessage leaves exactly one, whether or not one was pending, so any
\* number of calls with no expiry between them is followed by one drain; the drain
\* begins when that timer expires and leaves none pending, a pending timer goes
\* away only by its drain, and a pending timer is followed by a drain.
C18_OneDrainTimer ==
  /\ [][\A d \in Devices :
         /\ reserved'[d] <= 1
         /\ (last'.kind = "reserveToReceiveMessage" /\ last'.dev = d)
              => reserved'[d] = 1
         /\ (last'.kind = "receiveMessage" /\ last'.dev = d)
              => (reserved[d] = 1 /\ reserved'[d] = 0)
         /\ reserved'[d] < reserved[d]
              => (last'.kind = "receiveMessage" /\ last'.dev = d)]_vars
  /\ \A d \in Devices :
       reserved[d] > 0 ~> (last.kind = "receiveMessage" /\ last.dev = d)

\* a call of reserveToReceiveMessage that found a timer pending and replaced it
C18_Witness ==
  /\ last.kind = "reserveToReceiveMessage"
  /\ last.cleared
  /\ reserved[last.dev] = 1

----------------------------------------------------------------------------
(* The device registry.  A device table is a JavaScript object keyed by      *)
(* device id: a sequence of entries [id, info] with distinct ids, in the      *)
(* object's insertion order, which Object.entries and JSON keep.              *)

Has(table, id) == \E i \in DOMAIN table : table[i].id = id

Get(table, id) == table[CHOOSE i \in DOMAIN table : table[i].id = id].info

\* table[id] = info: in place when the key exists, appended when it is new
Put(table, id, info) ==
  IF Has(table, id)
    THEN [i \in DOMAIN table |->
            IF table[i].id = id THEN [id |-> id, info |-> info] ELSE table[i]]
    ELSE Append(table, [id |-> id, info |-> info])

\* delete table[id]
Delete(table, id) == SelectSeq(table, LAMBDA entry : entry.id # id)

\* clone(value) = JSON.parse(JSON.stringify(value)) of a device record: the fields
\* that JSON carries
CloneInfo(info) ==
  [id |-> info.id, name |-> info.name, icon |-> info.icon, timestamp |-> info.timestamp]

\* clone(value) of a device table
Clone(table) ==
  [i \in DOMAIN table |-> [id |-> table[i].id, info |-> CloneInfo(table[i].info)]]

\* lines 105-112, read after line 104 has stored the record: updated when the id is
\* a key of local, new otherwise
Classify(local, id) == IF Has(local, id) THEN "updated" ELSE "new"

\* lines 101-113 over remote[i..]: acc carries local and the events dispatched
RECURSIVE MergeRemote(_, _, _, _)
MergeRemote(remote, i, self, acc) ==
  IF i > Len(remote) THEN acc
  ELSE LET id     == remote[i].id
           info   == remote[i].info
           stored == Put(acc.local, id, info)
       IN IF id = self
            THEN MergeRemote(remote, i + 1, self, acc)
            ELSE MergeRemote(remote, i + 1, self,
                   [local  |-> stored,
                    events |-> Append(acc.events,
                                [type |-> Classify(stored, id), info |-> info])])

\* lines 115-122 left out
DropAbsentNever(entries, i, remote, self, acc) == acc

\* lines 115-122 over the entries local had when the loop began
RECURSIVE DropAbsent(_, _, _, _, _)
DropAbsent(entries, i, remote, self, acc) ==
  IF i > Len(entries) THEN acc
  ELSE LET id   == entries[i].id
           info == entries[i].info
       IN IF Has(remote, id) \/ id = self
            THEN DropAbsent(entries, i + 1, remote, self, acc)
            ELSE DropAbsent(entries, i + 1, remote, self,
                   [local  |-> Delete(acc.local, id),
                    events |-> Append(acc.events, [type |-> "obsolete", info |-> info])])

\* line 125 written with + : the cutoff lies ahead of the clock
ExpireDateAhead(days) == now + 1 * days

\* line 125: Date.now() - (1000 * 60 * 60 * configs.syncDeviceExpirationDays), the
\* product being days hours
ExpireDate(days) == now - 1 * days

\* lines 126-133 over the entries local had when the loop began
RECURSIVE DropExpired(_, _, _, _)
DropExpired(entries, i, expireDate, acc) ==
  IF i > Len(entries) THEN acc
  ELSE LET id   == entries[i].id
           info == entries[i].info
       IN IF info.timestamp < expireDate
            THEN DropExpired(entries, i + 1, expireDate,
                   [local  |-> Delete(acc.local, id),
                    events |-> Append(acc.events, [type |-> "obsolete", info |-> info])])
            ELSE DropExpired(entries, i + 1, expireDate, acc)

\* line 136 left out
PutSelfNever(local, info) == local

\* line 136: local[configs.syncDeviceInfo.id] = clone(configs.syncDeviceInfo)
PutSelf(local, info) == Put(local, info.id, CloneInfo(info))

\* lines 98-136 of updateDevices on device d whose identity is info: the table it
\* publishes and the events it dispatches, in order
Reconcile(d, info) ==
  LET remote  == Clone(syncDevices)
      cached  == Clone(syncDevicesLocalCache[d])
      merged  == MergeRemote(remote, 1, info.id, [local |-> cached, events |-> << >>])
      present == DropAbsent(merged.local, 1, remote, info.id, merged)
      days    == syncDeviceExpirationDays[d]
      alive   == IF days > 0
                   THEN DropExpired(present.local, 1, ExpireDate(days), present)
                   ELSE present
  IN [local |-> PutSelf(alive.local, info), events |-> alive.events]

\* lines 98-101: clone(null) is null and Object.entries(null) throws a TypeError
\* that nothing in updateDevices catches
Throws(table) == table = NoTable

\* lines 94-95 without their test: no call of updateDevices is dropped
UpdatingNever(d) == FALSE

\* lines 94-95: a call of updateDevices is dropped while the flag of d is up
Updating(d) == updateDevicesUpdating[d]

\* what `last` keeps of a call of updateDevices on d, made by caller, with identity
\* info; when the call is dropped at line 95 nothing is published or dispatched
Pass(d, caller, info, touched) ==
  LET dropped == Updating(d)
      threw   == ~dropped /\ Throws(syncDevices)
      out     == Reconcile(d, info)
  IN [kind      |-> "updateDevices",
      dev       |-> d,
      caller    |-> caller,
      touched   |-> touched,
      dropped   |-> dropped,
      threw     |-> threw,
      self      |-> info,
      remote    |-> syncDevices,
      cached    |-> syncDevicesLocalCache[d],
      days      |-> syncDeviceExpirationDays[d],
      at        |-> now,
      events    |-> IF dropped \/ threw THEN << >> ELSE out.events,
      published |-> IF dropped \/ threw THEN syncDevices ELSE out.local]

\* the timer that clears the flag of the function named is pending on d
Pending(d, name) == \E i \in DOMAIN timers[d] : timers[d][i] = name

\* timers of equal delay fire in the order they were set: the next to fire on d
Fires(d, name) == timers[d] # << >> /\ Head(timers[d]) = name

\* the timers pending after the call recorded in pass: line 139 sets one when the
\* pass ran to its end, then line 88 sets one when updateSelf ran and the
\* updateDevices of line 85 did not throw
TimersSet(pending, pass) ==
  LET reconciled == IF pass.dropped \/ pass.threw THEN pending
                    ELSE Append(pending, "updateDevices")
  IN IF pass.touched /\ ~pass.threw THEN Append(reconciled, "updateSelf")
     ELSE reconciled

\* lines 93-142: the effect of the call recorded in pass on the tables, the flag and
\* the timers; a call that throws has raised the flag (line 96) and set no timer
Publish(d, pass) ==
  /\ last' = pass
  /\ syncDevices' = pass.published
  /\ syncDevicesLocalCache' =
       [syncDevicesLocalCache EXCEPT ![d] =
          IF pass.dropped \/ pass.threw THEN @ ELSE Clone(pass.published)]
  /\ updateDevicesUpdating' = [updateDevicesUpdating EXCEPT ![d] = TRUE]
  /\ timers' = [timers EXCEPT ![d] = TimersSet(@, pass)]

\* lines 81-84: the identity with its timestamp refreshed
Touch(d, info) == [CloneInfo(info) EXCEPT !.timestamp = now]

\* the observer of syncDevices (lines 36-38) calls updateDevices
UpdateDevices(d) ==
  /\ syncDeviceInfo[d] # NoInfo
  /\ Publish(d, Pass(d, "observer", syncDeviceInfo[d], FALSE))
  /\ UNCHANGED << now, syncDeviceInfo, generated, syncDeviceExpirationDays,
                  updateSelfUpdating, channelVars, filterVars >>

\* the timer of lines 139-141 fires
UpdateDevicesTimeout(d) ==
  /\ Fires(d, "updateDevices")
  /\ timers' = [timers EXCEPT ![d] = Tail(@)]
  /\ updateDevicesUpdating' = [updateDevicesUpdating EXCEPT ![d] = FALSE]
  /\ UNCHANGED << now, syncDeviceInfo, generated, syncDevices, syncDevicesLocalCache,
                  syncDeviceExpirationDays, updateSelfUpdating, notified, channelVars,
                  filterVars >>
  /\ last' = NoCall

\* updateSelf, called by the daily interval (line 32) or by the observer of
\* syncDeviceInfo (lines 66-68); its own write of syncDeviceInfo calls it again, and
\* that call is dropped at line 76.  When the updateDevices of line 85 throws, the
\* error leaves updateSelf before line 88 sets its timer
UpdateSelf(d) ==
  /\ syncDeviceInfo[d] # NoInfo
  /\ IF updateSelfUpdating[d]
       THEN /\ last' = [kind |-> "updateSelf", dev |-> d, dropped |-> TRUE]
            /\ UNCHANGED << syncDeviceInfo, syncDevices, syncDevicesLocalCache,
                            updateSelfUpdating, updateDevicesUpdating, timers >>
       ELSE LET info == Touch(d, syncDeviceInfo[d])
                pass == Pass(d, "updateSelf", info, TRUE)
            IN /\ syncDeviceInfo' = [syncDeviceInfo EXCEPT ![d] = info]
               /\ updateSelfUpdating' = [updateSelfUpdating EXCEPT ![d] = TRUE]
               /\ Publish(d, pass)
  /\ UNCHANGED << now, generated, syncDeviceExpirationDays, channelVars, filterVars >>

\* the timer of lines 88-90 fires
UpdateSelfTimeout(d) ==
  /\ Fires(d, "updateSelf")
  /\ timers' = [timers EXCEPT ![d] = Tail(@)]
  /\ updateSelfUpdating' = [updateSelfUpdating EXCEPT ![d] = FALSE]
  /\ UNCHANGED << now, syncDeviceInfo, generated, syncDevices, syncDevicesLocalCache,
                  syncDeviceExpirationDays, updateDevicesUpdating, notified,
                  channelVars, filterVars >>
  /\ last' = NoCall

\* line 26 without its test: every init generates an identity
NeedsDeviceInfoAlways(d) == TRUE

\* line 26: an identity is generated when none is persisted
NeedsDeviceInfo(d) == syncDeviceInfo[d] = NoInfo

\* generateDeviceInfo() as init calls it: a fresh id, the platform's name, no icon
GenerateDeviceInfo(d) ==
  [id |-> DeviceId(d, generated[d] + 1), name |-> DefaultName(d), icon |-> 0,
   timestamp |-> 0]

\* init: lines 26-31.  updateSelf runs unless its flag is up; updateDevices then
\* runs once, inside updateSelf or at line 30, unless its flag is up.  When it
\* throws, the error leaves init before line 31
Init(d) ==
  /\ NeedsDeviceInfo(d) => generated[d] < MaxGenerated
  /\ LET fresh   == NeedsDeviceInfo(d)
         info    == IF fresh THEN GenerateDeviceInfo(d) ELSE syncDeviceInfo[d]
         touched == ~updateSelfUpdating[d]
         self    == IF touched THEN Touch(d, info) ELSE info
         pass    == Pass(d, "init", self, touched)
     IN /\ generated' = [generated EXCEPT ![d] = IF fresh THEN @ + 1 ELSE @]
        /\ syncDeviceInfo' = [syncDeviceInfo EXCEPT ![d] = self]
        /\ updateSelfUpdating' = [updateSelfUpdating EXCEPT ![d] = TRUE]
        /\ Publish(d, pass)
        /\ reserved' = [reserved EXCEPT ![d] = IF pass.threw THEN @ ELSE Rescheduled(@)]
  /\ UNCHANGED << now, syncDeviceExpirationDays, filterVars, chunkedSyncData,
                  syncLastMessageTimestamp, receiveWrite, sendWrite, delivered, sent >>

\* the record a device that ran earlier and is offline now left in the shared table
OfflineEntry(d) ==
  [id |-> DeviceId(d, 1),
   info |-> [id |-> DeviceId(d, 1), name |-> DefaultName(d), icon |-> 0, timestamp |-> 1]]

\* no online device has run init; the shared table is empty, holds the records of
\* the offline devices, or is missing from the store
InitRegistry ==
  /\ now = 1
  /\ syncDeviceInfo = [d \in Devices |-> NoInfo]
  /\ generated = [d \in Devices |-> 0]
  /\ syncDevices \in { << >>, NoTable }
                       \cup { << OfflineEntry(d) >> : d \in Devices \ Online }
  /\ syncDevicesLocalCache = [d \in Devices |-> << >>]
  /\ syncDeviceExpirationDays \in { [d \in Devices |-> n] : n \in 0 .. MaxDays }
  /\ updateSelfUpdating = [d \in Devices |-> FALSE]
  /\ updateDevicesUpdating = [d \in Devices |-> FALSE]
  /\ timers = [d \in Devices |-> << >>]
  /\ notified = [d \in Devices |-> FALSE]
  /\ chunkedSyncData = [kind |-> "missing", items |-> << >>]
  /\ syncLastMessageTimestamp = [d \in Devices |-> 0]
  /\ reserved = [d \in Devices |-> 0]
  /\ receiveWrite = [d \in Devices |-> << >>]
  /\ sendWrite = [d \in Devices |-> << >>]
  /\ delivered = [d \in Devices |-> << >>]
  /\ sent = 0
  /\ syncUnsendableUrlPattern = [d \in Devices |-> 0]
  /\ unsendableUrlMatcher = [d \in Devices |-> << >>]
  /\ last = NoCall

\* the registry's clock advances by half a day
TickRegistry == Tick(HoursPerDay \div 2, MaxNow)

\* the observers may be called at any time: the notifications are not followed
Start == \E d \in Online : Init(d) /\ UNCHANGED notified
Touched == \E d \in Online : UpdateSelf(d) /\ UNCHANGED notified
TouchSettled == \E d \in Online : UpdateSelfTimeout(d)
Reconciled == \E d \in Online : UpdateDevices(d) /\ UNCHANGED notified
ReconcileSettled == \E d \in Online : UpdateDevicesTimeout(d)

Next ==
  \/ TickRegistry
  \/ Start
  \/ Touched
  \/ TouchSettled
  \/ Reconciled
  \/ ReconcileSettled

Spec == InitRegistry /\ [][Next]_vars


\* every operation of the registry and of the channel on one device, on the hourly
\* clock; the device also sends to itself
Alone == "A"

NextAlone ==
  \/ TickChannel
  \/ Init(Alone) /\ UNCHANGED notified
  \/ UpdateSelf(Alone) /\ UNCHANGED notified
  \/ UpdateSelfTimeout(Alone)
  \/ UpdateDevices(Alone) /\ UNCHANGED notified
  \/ UpdateDevicesTimeout(Alone)
  \/ ReserveToReceiveMessage(Alone)
  \/ ReceiveMessage(Alone)
  \/ ReceiveMessageStored(Alone)
  \/ \E to \in Recipients : SendMessage(Alone, to)
  \/ SendMessageStored(Alone)

\* the first device of an installation: an empty shared table, expiry switched off
InitAlone ==
  /\ InitRegistry
  /\ syncDevices = << >>
  /\ \A d \in Devices : syncDeviceExpirationDays[d] = 0

SpecAlone == InitAlone /\ [][NextAlone]_vars


\* one device that has run before meets any shared table: the instants its records
\* may carry are the start of the clock and half a day later
Stamps == { 1, 1 + HoursPerDay \div 2 }

\* the tables of distinct ids whose records carry any of the instants
RECURSIVE StampedTables(_)
StampedTables(ids) ==
  { << >> } \cup
  UNION { { << [id |-> id,
               info |-> [id |-> id, name |-> DefaultName(id[1]), icon |-> 0,
                         timestamp |-> t]] >> \o rest :
              t \in Stamps, rest \in StampedTables(ids \ {id}) } : id \in ids }

\* the ids of the devices other than the one that runs
OtherIds == { DeviceId(d, 1) : d \in Devices \ {Alone} }

\* the device has an identity; its local cache is what an earlier pass left, the own
\* record and any records of others, and the shared table is what the others have
\* made of it since, with or without the own record
InitPass ==
  /\ now = 1 + HoursPerDay \div 2
  /\ syncDeviceInfo = [d \in Devices |->
        IF d = Alone
          THEN [id |-> DeviceId(d, 1), name |-> DefaultName(d), icon |-> 0,
                timestamp |-> 1]
          ELSE NoInfo]
  /\ generated = [d \in Devices |-> IF d = Alone THEN 1 ELSE 0]
  /\ \E others \in StampedTables(OtherIds) :
       \E own \in { << >>, << [id |-> SelfId(Alone), info |-> syncDeviceInfo[Alone]] >> } :
         syncDevices = own \o others
  /\ \E others \in StampedTables(OtherIds) :
       syncDevicesLocalCache =
         [d \in Devices |->
            IF d = Alone
              THEN << [id |-> SelfId(d), info |-> syncDeviceInfo[d]] >> \o others
              ELSE << >>]
  /\ syncDeviceExpirationDays \in { [d \in Devices |-> n] : n \in 0 .. MaxDays }
  /\ updateSelfUpdating = [d \in Devices |-> FALSE]
  /\ updateDevicesUpdating = [d \in Devices |-> FALSE]
  /\ timers = [d \in Devices |-> << >>]
  /\ notified = [d \in Devices |-> FALSE]
  /\ chunkedSyncData = [kind |-> "missing", items |-> << >>]
  /\ syncLastMessageTimestamp = [d \in Devices |-> 0]
  /\ reserved = [d \in Devices |-> 0]
  /\ receiveWrite = [d \in Devices |-> << >>]
  /\ sendWrite = [d \in Devices |-> << >>]
  /\ delivered = [d \in Devices |-> << >>]
  /\ sent = 0
  /\ syncUnsendableUrlPattern = [d \in Devices |-> 0]
  /\ unsendableUrlMatcher = [d \in Devices |-> << >>]
  /\ last = NoCall

NextPass ==
  \/ TickRegistry
  \/ UpdateDevices(Alone) /\ UNCHANGED notified
  \/ UpdateDevicesTimeout(Alone)
  \/ UpdateSelf(Alone) /\ UNCHANGED notified
  \/ UpdateSelfTimeout(Alone)

SpecPass == InitPass /\ [][NextPass]_vars


\* the registry with the notifications of the store followed: a write that changes
\* syncDevices calls the observer of lines 34-38 on the writing device and on every
\* device that has run init, and the observer calls updateDevices once for it

\* the devices whose observer a change of syncDevices made by d calls
Observes(e, d) == e = d \/ syncDeviceInfo[e] # NoInfo

\* the notifications after a step of d: raised when the step changed syncDevices,
\* consumed by the call the observer of d made
Notify(d, observed) ==
  notified' =
    [e \in Devices |->
       IF Observes(e, d) /\ syncDevices' # syncDevices THEN TRUE
       ELSE IF e = d /\ observed THEN FALSE
       ELSE notified[e]]

InitNotify ==
  /\ InitRegistry
  /\ syncDevices = << >>
  /\ \A d \in Devices : syncDeviceExpirationDays[d] = 0

\* the clock advances by a day, the period of the interval of line 32
TickDay == Tick(HoursPerDay, MaxNow)
Started == \E d \in Online : Init(d) /\ Notify(d, FALSE)
Refreshed == \E d \in Online : UpdateSelf(d) /\ Notify(d, FALSE)
Observed == \E d \in Online : notified[d] /\ UpdateDevices(d) /\ Notify(d, TRUE)

NextNotify ==
  \/ TickDay
  \/ Started
  \/ Refreshed
  \/ TouchSettled
  \/ Observed
  \/ ReconcileSettled

SpecNotify == InitNotify /\ [][NextNotify]_vars

----------------------------------------------------------------------------
(* Claims about the device registry *)

\* the call that has just returned is a reconcile pass that ran to its end
PassDone == last.kind = "updateDevices" /\ ~last.dropped /\ ~last.threw

EventsOf(type, id) ==
  { i \in DOMAIN last.events : last.events[i].type = type /\ last.events[i].info.id = id }

\* C4: a pass classifies every id of the remote table that is not the own id and is
\* absent from the local cache as new, exactly once and with its record, and
\* classifies as updated only ids that the local cache already held.
C4_AbsentIsNew ==
  PassDone =>
    /\ \A i \in DOMAIN last.remote :
         LET id == last.remote[i].id IN
           (id # last.self.id /\ ~Has(last.cached, id))
             => /\ Cardinality(EventsOf("new", id)) = 1
                /\ \A k \in EventsOf("new", id) :
                     last.events[k].info = last.remote[i].info
    /\ \A k \in DOMAIN last.events :
         last.events[k].type = "updated" => Has(last.cached, last.events[k].info.id)

\* C5: with a threshold of N > 0 days, a pass at instant `at` removes a device of the
\* remote table other than itself, and reports it obsolete, exactly when its
\* timestamp is older than at - 24 N hours.
C5_ExpiresAfterDays ==
  (PassDone /\ last.days > 0) =>
    \A i \in DOMAIN last.remote :
      LET id   == last.remote[i].id
          info == last.remote[i].info
      IN id # last.self.id =>
           /\ (info.timestamp < last.at - HoursPerDay * last.days)
                <=> ~Has(last.published, id)
           /\ ~Has(last.published, id) <=> EventsOf("obsolete", id) # {}

\* the pass began with the shared table equal to the local cache and holding the own
\* record as it is now: the state a pass of the same device leaves behind
SecondPass ==
  /\ PassDone
  /\ last.remote = last.cached
  /\ Has(last.remote, last.self.id)
  /\ Get(last.remote, last.self.id) = last.self

C7_PublishedEqualsCache ==
  PassDone =>
    /\ syncDevices = syncDevicesLocalCache[last.dev]
    /\ Cardinality({ i \in DOMAIN syncDevices :
                       syncDevices[i].id = syncDeviceInfo[last.dev].id }) = 1
    /\ Get(syncDevices, syncDeviceInfo[last.dev].id) = syncDeviceInfo[last.dev]

\* a pass that expired another device's record and published a table of two records
C7_Witness ==
  /\ PassDone
  /\ Len(syncDevices) = 2
  /\ \E k \in DOMAIN last.events : last.events[k].type = "obsolete"

\* C8: once a device has an identity, no step changes its id, name or icon.
C8_IdentityStable ==
  [][\A d \in Devices :
       syncDeviceInfo[d] # NoInfo
         => /\ syncDeviceInfo'[d].id = syncDeviceInfo[d].id
            /\ syncDeviceInfo'[d].name = syncDeviceInfo[d].name
            /\ syncDeviceInfo'[d].icon = syncDeviceInfo[d].icon]_vars

\* init has run again on a device that had an identity (its updateSelf was dropped),
\* after the identity was touched at a later hour and a message was sent
C8_Witness ==
  /\ last.kind = "updateDevices"
  /\ last.caller = "init"
  /\ ~last.touched
  /\ generated[last.dev] = 1
  /\ syncDeviceInfo[last.dev].timestamp > 1
  /\ sent > 0

\* the step is a call of updateDevices on d
ReconcileCalled(d) == last'.kind = "updateDevices" /\ last'.dev = d

\* C11: a call of updateDevices made while the flag of its device is up is dropped: it
\* leaves the shared table, the local caches and the identity as they were and
\* dispatches no event; a pass that ran leaves the flag up, so the notification of
\* its own publish is dropped.  Likewise a call of updateSelf made while its flag is
\* up changes nothing, and a call that ran leaves that flag up.
C11_CallInFlightIsNoOp ==
  [][\A d \in Devices :
       /\ (updateDevicesUpdating[d] /\ ReconcileCalled(d))
            => /\ last'.dropped
               /\ last'.events = << >>
               /\ syncDevices' = syncDevices
               /\ syncDevicesLocalCache' = syncDevicesLocalCache
               /\ syncDeviceInfo'[d] = last'.self
               /\ last'.caller = "observer" => syncDeviceInfo' = syncDeviceInfo
       /\ (ReconcileCalled(d) /\ ~last'.dropped) => updateDevicesUpdating'[d]
       /\ (updateSelfUpdating[d] /\ ReconcileCalled(d)) => ~last'.touched
       /\ (updateSelfUpdating[d] /\ last'.kind = "updateSelf" /\ last'.dev = d)
            => /\ last'.dropped
               /\ UNCHANGED << syncDevices, syncDevicesLocalCache, syncDeviceInfo >>
       /\ (ReconcileCalled(d) /\ last'.touched) => updateSelfUpdating'[d]
       /\ (~updateSelfUpdating[d] /\ syncDeviceInfo[d] # NoInfo)
            => ~(last'.kind = "updateSelf" /\ last'.dev = d)]_vars

\* a notification of a table another device has changed was dropped
C11_Witness ==
  /\ last.kind = "updateDevices"
  /\ last.dropped
  /\ last.caller = "observer"
  /\ last.remote # last.cached

\* no write of the shared table is under way: every notification has reached its
\* observer and every cool-down is over
Settled ==
  \A d \in Online :
    ~notified[d] /\ ~updateDevicesUpdating[d] /\ ~updateSelfUpdating[d]

\* C15: every change of the shared table is reconciled by every running device: once
\* the notifications of the last write have been delivered and the cool-downs are
\* over, the local cache of every device that has run init equals the shared table.
C15_SettledCacheEqualsTable ==
  Settled =>
    \A d \in Online :
      syncDeviceInfo[d] # NoInfo => syncDevicesLocalCache[d] = syncDevices

\* C17: a call of updateSelf that its own flag did not drop has refreshed the
\* timestamp of the identity and published it: when the call returns, the record of
\* the shared table under the own id is the identity with the timestamp of the call.
C17_TouchPublishes ==
  (last.kind = "updateDevices" /\ last.touched) =>
    /\ syncDeviceInfo[last.dev].timestamp = last.at
    /\ Has(syncDevices, last.self.id)
    /\ Get(syncDevices, last.self.id).timestamp = last.at

\* C12: a flag that updateDevices or updateSelf has raised is lowered again, also
\* after a pass over a missing device table.  Only the timers of lines 88-90 and
\* 139-141 lower the flags, and only a call that finds its flag down sets a timer,
\* so the flags are lowered in every execution exactly when no state has a flag up
\* and no timer to lower it; from such a state every later call is dropped.
C12_FlagHasTimer ==
  \A d \in Devices :
    /\ updateDevicesUpdating[d] => Pending(d, "updateDevices")
    /\ updateSelfUpdating[d] => Pending(d, "updateSelf")

\* C13: no pass dispatches an event, new, updated or obsolete, for the own id of its
\* device; in particular the expiry step leaves the own record of the local cache
\* alone.
C13_NoEventForSelf ==
  PassDone => \A k \in DOMAIN last.events : last.events[k].info.id # last.self.id

\* the ids of the local cache a pass finds absent from the remote table, the own id
\* left out
AbsentIds ==
  { last.cached[i].id : i \in { j \in DOMAIN last.cached :
                                  /\ last.cached[j].id # last.self.id
                                  /\ ~Has(last.remote, last.cached[j].id) } }

\* C14: a pass reports every id of the local cache that is absent from the remote
\* table and is not the own id obsolete exactly once, with its cached record, also
\* when the expiry step would remove that record, and publishes a table without it.
C14_AbsentIsObsoleteOnce ==
  PassDone =>
    \A id \in AbsentIds :
      /\ Cardinality(EventsOf("obsolete", id)) = 1
      /\ \A k \in EventsOf("obsolete", id) : last.events[k].info = Get(last.cached, id)
      /\ \A k \in DOMAIN last.events :
           last.events[k].info.id = id => last.events[k].type = "obsolete"
      /\ ~Has(last.published, id)
      /\ ~Has(syncDevices, id)
      /\ ~Has(syncDevicesLocalCache[last.dev], id)

\* a pass, with expiry on, over a cache that holds a record absent from the remote
\* table and older than the cutoff
C14_Witness ==
  /\ PassDone
  /\ last.days > 0
  /\ \E id \in AbsentIds : Get(last.cached, id).timestamp < last.at - last.days

----------------------------------------------------------------------------
(* isSendableTab.  A locator is its length and its kind (what it begins with); the  *)
(* exclusion pattern p is a regular expression that matches the locators of the     *)
(* kinds 1 .. p, so pattern 0 matches none.                                         *)

Urls == [length : {0, 1, MaxUrlLength, MaxUrlLength + 1}, kind : 1 .. MaxUrlKind]

\* new RegExp(pattern): an object that keeps the source it was compiled from
Compile(pattern) == [source |-> pattern]

\* matcher.test(url)
Test(matcher, url) == url.kind <= matcher.source

\* line 63 left out: the compiled matcher outlives the pattern
InvalidatedNever(matcher) == matcher

\* line 63: isSendableTab.unsendableUrlMatcher = null
Invalidated(matcher) == << >>

\* configs.syncUnsendableUrlPattern is set; the observer of lines 60-65 runs
SetUnsendableUrlPattern(d, pattern) ==
  /\ syncUnsendableUrlPattern' = [syncUnsendableUrlPattern EXCEPT ![d] = pattern]
  /\ unsendableUrlMatcher' =
       [unsendableUrlMatcher EXCEPT ![d] = Invalidated(unsendableUrlMatcher[d])]
  /\ last' = [kind |-> "setUnsendableUrlPattern", dev |-> d]
  /\ UNCHANGED << now, registryVars, notified, channelVars >>

\* isSendableTab(tab) with tab.url = url; length 0 is an absent or empty url
IsSendableTab(d, url) ==
  LET refused  == url.length = 0 \/ url.length > MaxUrlLength
      compiles == ~refused /\ unsendableUrlMatcher[d] = << >>
      matcher  == IF compiles THEN Compile(syncUnsendableUrlPattern[d])
                  ELSE unsendableUrlMatcher[d][1]
  IN /\ unsendableUrlMatcher' =
          [unsendableUrlMatcher EXCEPT ![d] = IF compiles THEN << matcher >> ELSE @]
     /\ last' = [kind |-> "isSendableTab", dev |-> d, url |-> url, compiled |-> compiles,
                 result |-> IF refused THEN FALSE ELSE ~Test(matcher, url)]
     /\ UNCHANGED << now, registryVars, notified, channelVars, syncUnsendableUrlPattern >>

\* the devices run; any pattern is configured and no matcher is compiled yet
InitFilter ==
  /\ now = 1
  /\ syncDeviceInfo = [d \in Devices |->
        [id |-> DeviceId(d, 1), name |-> DefaultName(d), icon |-> 0, timestamp |-> 1]]
  /\ generated = [d \in Devices |-> 1]
  /\ syncDevices = << >>
  /\ syncDevicesLocalCache = [d \in Devices |-> << >>]
  /\ syncDeviceExpirationDays = [d \in Devices |-> 0]
  /\ updateSelfUpdating = [d \in Devices |-> FALSE]
  /\ updateDevicesUpdating = [d \in Devices |-> FALSE]
  /\ timers = [d \in Devices |-> << >>]
  /\ notified = [d \in Devices |-> FALSE]
  /\ chunkedSyncData = [kind |-> "missing", items |-> << >>]
  /\ syncLastMessageTimestamp = [d \in Devices |-> 0]
  /\ reserved = [d \in Devices |-> 0]
  /\ receiveWrite = [d \in Devices |-> << >>]
  /\ sendWrite = [d \in Devices |-> << >>]
  /\ delivered = [d \in Devices |-> << >>]
  /\ sent = 0
  /\ syncUnsendableUrlPattern \in { [d \in Devices |-> p] : p \in 0 .. MaxPattern }
  /\ unsendableUrlMatcher = [d \in Devices |-> << >>]
  /\ last = NoCall

PatternChanged == \E d \in Online : \E p \in 0 .. MaxPattern : SetUnsendableUrlPattern(d, p)
SendableAsked == \E d \in Online : \E url \in Urls : IsSendableTab(d, url)

NextFilter ==
  \/ PatternChanged
  \/ SendableAsked

SpecFilter == InitFilter /\ [][NextFilter]_vars

\* C9: every call of isSendableTab returns false for an absent locator and for one
\* longer than 65535 characters, false for a locator that matches the pattern
\* configured when the call is made, and true otherwise.
C9_SendableByCurrentPattern ==
  last.kind = "isSendableTab" =>
    last.result =
      (/\ last.url.length # 0
       /\ last.url.length <= MaxUrlLength
       /\ ~Test(Compile(syncUnsendableUrlPattern[last.dev]), last.url))

\* a call answered from the cached matcher refuses a locator of the greatest length
\* allowed because the pattern now configured excludes it
C9_Witness ==
  /\ last.kind = "isSendableTab"
  /\ ~last.compiled
  /\ last.url.length = MaxUrlLength
  /\ ~last.result
  /\ unsendableUrlMatcher[last.dev] # << >>
  /\ last.url.kind = syncUnsendableUrlPattern[last.dev]

----------------------------------------------------------------------------
(* getOtherDevices *)

\* a.name > b.name in JavaScript, names being non-numeric strings or null: null is
\* neither greater nor less than a string
JsGreater(a, b) == a # 0 /\ b # 0 /\ a > b

\* the comparator of line 210, (a, b) => a.name > b.name, as sort reads it: true is
\* 1 and false is 0, so it never answers "less"
CompareFn(a, b) == IF JsGreater(a.name, b.name) THEN 1 ELSE 0

\* the place of item among sorted[1..j], scanning down from j while the element
\* compares greater (insertion sort, the engines' sort of short arrays)
RECURSIVE LinearPlace(_, _, _)
LinearPlace(sorted, item, j) ==
  IF j = 0 THEN 0
  ELSE IF CompareFn(sorted[j], item) <= 0 THEN j
  ELSE LinearPlace(sorted, item, j - 1)

\* the place of item among sorted[left+1 .. right] by bisection (binary insertion,
\* the first phase of a merge sort of runs)
RECURSIVE BinaryPlace(_, _, _, _)
BinaryPlace(sorted, item, left, right) ==
  IF left >= right THEN left
  ELSE LET mid == left + ((right - left) \div 2)
       IN IF CompareFn(item, sorted[mid + 1]) < 0
            THEN BinaryPlace(sorted, item, left, mid)
            ELSE BinaryPlace(sorted, item, mid + 1, right)

InsertAt(sorted, place, item) ==
  SubSeq(sorted, 1, place) \o << item >> \o SubSeq(sorted, place + 1, Len(sorted))

\* Array.prototype.sort(comparefn).  The comparator is not a consistent comparison
\* function, and for such a one the language leaves the order to the engine:
\* "linear" inserts by scanning (SpiderMonkey's sort of arrays shorter than 24),
\* "binary" inserts by bisection (the run-building phase of V8's TimSort)
RECURSIVE Sort(_, _, _)
Sort(array, i, engine) ==
  IF i > Len(array) THEN array
  ELSE LET head  == SubSeq(array, 1, i - 1)
           item  == array[i]
           place == IF engine = "linear" THEN LinearPlace(head, item, i - 1)
                    ELSE BinaryPlace(head, item, 0, i - 1)
       IN Sort(InsertAt(head, place, item) \o SubSeq(array, i + 1, Len(array)),
               i + 1, engine)

Engines == {"linear", "binary"}

\* lines 203-209: the records of the table whose key is not the own id
RECURSIVE OtherDevices(_, _, _)
OtherDevices(devices, i, self) ==
  IF i > Len(devices) THEN << >>
  ELSE IF devices[i].id = self
    THEN OtherDevices(devices, i + 1, self)
    ELSE << devices[i].info >> \o OtherDevices(devices, i + 1, self)

\* getOtherDevices()
GetOtherDevices(d, engine) ==
  /\ last' = [kind |-> "getOtherDevices", dev |-> d, self |-> SelfId(d),
              devices |-> syncDevices,
              result |-> Sort(OtherDevices(syncDevices, 1, SelfId(d)), 2, engine)]
  /\ UNCHANGED << now, registryVars, notified, channelVars, filterVars >>

\* the tables of distinct ids whose records carry any name, null included
RECURSIVE Tables(_)
Tables(ids) ==
  { << >> } \cup
  UNION { { << [id |-> id, info |-> [id |-> id, name |-> n, icon |-> 0, timestamp |-> 1]] >>
              \o rest : n \in 0 .. MaxName, rest \in Tables(ids \ {id}) } : id \in ids }

\* the ids a shared table may hold: the devices and one that is not modelled further
ListedIds == Recipients \cup { DeviceId("D", 1) }

\* the devices run and the shared table holds any records
InitList ==
  /\ now = 1
  /\ syncDeviceInfo = [d \in Devices |->
        [id |-> DeviceId(d, 1), name |-> DefaultName(d), icon |-> 0, timestamp |-> 1]]
  /\ generated = [d \in Devices |-> 1]
  /\ syncDevices \in Tables(ListedIds)
  /\ syncDevicesLocalCache = [d \in Devices |-> << >>]
  /\ syncDeviceExpirationDays = [d \in Devices |-> 0]
  /\ updateSelfUpdating = [d \in Devices |-> FALSE]
  /\ updateDevicesUpdating = [d \in Devices |-> FALSE]
  /\ timers = [d \in Devices |-> << >>]
  /\ notified = [d \in Devices |-> FALSE]
  /\ chunkedSyncData = [kind |-> "missing", items |-> << >>]
  /\ syncLastMessageTimestamp = [d \in Devices |-> 0]
  /\ reserved = [d \in Devices |-> 0]
  /\ receiveWrite = [d \in Devices |-> << >>]
  /\ sendWrite = [d \in Devices |-> << >>]
  /\ delivered = [d \in Devices |-> << >>]
  /\ sent = 0
  /\ syncUnsendableUrlPattern = [d \in Devices |-> 0]
  /\ unsendableUrlMatcher = [d \in Devices |-> << >>]
  /\ last = NoCall

Listed == \E d \in Online : \E engine \in Engines : GetOtherDevices(d, engine)

NextList == Listed

SpecList == InitList /\ [][NextList]_vars

\* C10: getOtherDevices returns the records of the shared table whose id is not the
\* own id, each once and none for the own id, in ascending order of name: no
\* record is followed by one whose name is less.
C10_OthersSortedByName ==
  last.kind = "getOtherDevices" =>
    /\ Len(last.result) =
         Cardinality({ i \in DOMAIN last.devices : last.devices[i].id # last.self })
    /\ \A i \in DOMAIN last.devices :
         last.devices[i].id # last.self
           => \E k \in DOMAIN last.result : last.result[k] = last.devices[i].info
    /\ \A k \in DOMAIN last.result : last.result[k].id # last.self
    /\ \A j, k \in DOMAIN last.result :
         j < k => ~JsGreater(last.result[j].name, last.result[k].name)

====
